---------------------------- MODULE Spec2Model ----------------------------
(***************************************************************************)
(* Model of the ant-colony skeleton: Signal (signals.py), Cell and World   *)
(* (ants.py) and the Position arithmetic they use (utils.py).              *)
(*                                                                         *)
(* Python floats are modelled as exact rationals [n, d] in lowest terms    *)
(* with d > 0, so "exactly" in a property means exact real arithmetic.     *)
(* A Python call is modelled by an operator that returns the outcome of    *)
(* the call: the mutated receiver, the returned value and the exception    *)
(* raised ("none" when the call returns normally).                         *)
(***************************************************************************)
EXTENDS Integers, Sequences, FiniteSets, TLC

VARIABLES
    sigs,    \* Signal objects of the Signal scenario: index -> Signal
    ext,     \* index -> TRUE when the last decrease of that Signal returned
             \* True and no increase has been called on it since
    cell,    \* the Cell of the Cell scenario
    food0,   \* food stored in the cell when it was last stocked
    total,   \* food returned by grab_food since the cell was last stocked
    clean,   \* TRUE while every grab_food since stocking had amount >= 0
    placed,  \* identities of the signals stored into the cell's dict
    world,   \* the World of the World scenario
    call,    \* the last call made: operation, arguments, pre-state, outcome
    nops     \* number of calls made so far

vars == <<sigs, ext, cell, food0, total, clean, placed, world, call, nops>>

---------------------------------------------------------------------------
\* Bounds of the model.
MaxOps == 2          \* calls per behaviour
MaxIntensity == 2    \* largest intensity given to a constructor
MaxDecay == 1        \* largest decay given to a constructor
MaxDt == 1           \* largest dt given to decrease
MaxGrabs == 3        \* calls per behaviour of the food scenario
MaxFood == 3         \* largest amount of food stocked in the cell
MaxAmount == 3       \* largest amount asked of grab_food
MaxCellOps == 2      \* calls per behaviour of the cell-signal scenario
MaxSide == 2         \* largest width and height given to World
MaxDist == 1         \* largest dist given to signal_gradient
MaxWorldOps == 2     \* calls per behaviour of the world scenario

Ids == {"food", "home"}
SigIdx == {1, 2}
Intensities == -1 .. MaxIntensity
Decays == -1 .. MaxDecay
Dts == -1 .. MaxDt

---------------------------------------------------------------------------
\* Exact rational arithmetic standing for Python float arithmetic.
Abs(a) == IF a < 0 THEN -a ELSE a

RECURSIVE GCD(_, _)
GCD(a, b) == IF b = 0 THEN a ELSE GCD(b, a % b)

\* the rational n/d (d # 0) in lowest terms with positive denominator
Rat(n, d) ==
    LET g == GCD(Abs(n), Abs(d))
        s == IF d < 0 THEN -1 ELSE 1
    IN  [n |-> (s * n) \div g, d |-> (s * d) \div g]

Int2Rat(i) == [n |-> i, d |-> 1]
Zero == Int2Rat(0)
RAdd(a, b) == Rat(a.n * b.d + b.n * a.d, a.d * b.d)
RSub(a, b) == Rat(a.n * b.d - b.n * a.d, a.d * b.d)
RMul(a, b) == Rat(a.n * b.n, a.d * b.d)
RDiv(a, b) == Rat(a.n * b.d, a.d * b.n)       \* only for b # Zero
RLe(a, b) == a.n * b.d <= b.n * a.d
RLt(a, b) == a.n * b.d < b.n * a.d

---------------------------------------------------------------------------
\* signals.py

\* Signal.__init__: stores its arguments as given, without validation.
Signal_init(id, intensity, decay) ==
    [id |-> id, intensity |-> intensity, decay |-> decay]

\* a plausible bug: the extinction test is strict
Signal_decrease_strict(self, dt) ==
    LET i == RSub(self.intensity, RMul(self.decay, dt))
    IN  IF RLt(i, Zero)
        THEN [self |-> [self EXCEPT !.intensity = Zero], ret |-> TRUE, exc |-> "none"]
        ELSE [self |-> [self EXCEPT !.intensity = i], ret |-> FALSE, exc |-> "none"]

\* Signal.decrease(dt)
Signal_decrease(self, dt) ==
    LET i == RSub(self.intensity, RMul(self.decay, dt))
    IN  IF RLe(i, Zero)
        THEN [self |-> [self EXCEPT !.intensity = Zero], ret |-> TRUE, exc |-> "none"]
        ELSE [self |-> [self EXCEPT !.intensity = i], ret |-> FALSE, exc |-> "none"]

\* a plausible bug: the decays are averaged without their weights
Signal_increase_unweighted(self, signal) ==
    IF self.id # signal.id
    THEN [self |-> self, ret |-> "None", exc |-> "Exception"]
    ELSE IF RAdd(signal.intensity, self.intensity) = Zero
    THEN [self |-> self, ret |-> "None", exc |-> "ZeroDivisionError"]
    ELSE [self |-> [self EXCEPT
                      !.decay = RDiv(RAdd(signal.decay, self.decay), Int2Rat(2)),
                      !.intensity = RAdd(self.intensity, signal.intensity)],
          ret |-> "None", exc |-> "none"]

\* a plausible bug: the identities are not compared
Signal_increase_unchecked(self, signal) ==
    IF RAdd(signal.intensity, self.intensity) = Zero
    THEN [self |-> self, ret |-> "None", exc |-> "ZeroDivisionError"]
    ELSE [self |-> [self EXCEPT
                      !.decay = RDiv(RAdd(RMul(signal.decay, signal.intensity),
                                          RMul(self.decay, self.intensity)),
                                     RAdd(signal.intensity, self.intensity)),
                      !.intensity = RAdd(self.intensity, signal.intensity)],
          ret |-> "None", exc |-> "none"]

\* a plausible bug (or fix): a zero total is treated as nothing to merge
Signal_increase_guarded(self, signal) ==
    IF self.id # signal.id
    THEN [self |-> self, ret |-> "None", exc |-> "Exception"]
    ELSE IF RAdd(signal.intensity, self.intensity) = Zero
    THEN [self |-> self, ret |-> "None", exc |-> "none"]
    ELSE [self |-> [self EXCEPT
                      !.decay = RDiv(RAdd(RMul(signal.decay, signal.intensity),
                                          RMul(self.decay, self.intensity)),
                                     RAdd(signal.intensity, self.intensity)),
                      !.intensity = RAdd(self.intensity, signal.intensity)],
          ret |-> "None", exc |-> "none"]

\* Signal.increase(signal): the identity check raises first; the division
\* raises ZeroDivisionError before either field is assigned.
Signal_increase(self, signal) ==
    IF self.id # signal.id
    THEN [self |-> self, ret |-> "None", exc |-> "Exception"]
    ELSE IF RAdd(signal.intensity, self.intensity) = Zero
    THEN [self |-> self, ret |-> "None", exc |-> "ZeroDivisionError"]
    ELSE [self |-> [self EXCEPT
                      !.decay = RDiv(RAdd(RMul(signal.decay, signal.intensity),
                                          RMul(self.decay, self.intensity)),
                                     RAdd(signal.intensity, self.intensity)),
                      !.intensity = RAdd(self.intensity, signal.intensity)],
          ret |-> "None", exc |-> "none"]

---------------------------------------------------------------------------
\* utils.py: Position, a frozen pair of ints
Position(x, y) == [type |-> "Position", x |-> x, y |-> y]

Raise(e) == [ret |-> "None", exc |-> e]
Return(v) == [ret |-> v, exc |-> "none"]

\* Python's round() of a float: to the nearest int, ties to the even one
Round(r) ==
    LET fl == r.n \div r.d
        twice == 2 * (r.n - fl * r.d)
    IN  IF twice < r.d THEN fl
        ELSE IF twice > r.d THEN fl + 1
        ELSE IF fl % 2 = 0 THEN fl ELSE fl + 1

\* Python's int % int: the result takes the sign of the divisor b # 0
PyMod(a, b) == IF b > 0 THEN a % b ELSE -((-a) % (-b))

\* Position.__add__ with a Position
Position_add(self, other) == Position(self.x + other.x, self.y + other.y)

\* Position.__mul__ with a number: an int scales exactly, a float scales and
\* rounds; both are Round of the exact product
Position_mul(self, other) ==
    Position(Round(RMul(Int2Rat(self.x), other)),
             Round(RMul(Int2Rat(self.y), other)))

\* Position.__mod__ with a Position
Position_mod(self, other) ==
    IF other.x = 0 \/ other.y = 0
    THEN Raise("ZeroDivisionError")
    ELSE Return(Position(PyMod(self.x, other.x), PyMod(self.y, other.y)))

---------------------------------------------------------------------------
\* ants.py: Cell.  Food amounts are modelled as integers (exact arithmetic);
\* the signals dict is a function from the identities it holds to Signals.
EmptyDict == [k \in {} |-> 0]

\* Cell.__init__
Cell_init(pos) ==
    [pos |-> pos, ant |-> "None", signals |-> EmptyDict, food |-> 0]

\* a plausible bug: the cell is not emptied when it cannot cover the amount
Cell_grab_food_keep(self, amount) ==
    IF self.food >= amount
    THEN [self |-> [self EXCEPT !.food = self.food - amount],
          ret |-> amount, exc |-> "none"]
    ELSE [self |-> self, ret |-> self.food, exc |-> "none"]

\* Cell.grab_food(amount)
Cell_grab_food(self, amount) ==
    IF self.food >= amount
    THEN [self |-> [self EXCEPT !.food = self.food - amount],
          ret |-> amount, exc |-> "none"]
    ELSE [self |-> [self EXCEPT !.food = 0], ret |-> self.food, exc |-> "none"]

\* Cell.get_signal(key)
Cell_get_signal(self, key) ==
    IF key \in DOMAIN self.signals
    THEN [self |-> self, ret |-> self.signals[key].intensity, exc |-> "none"]
    ELSE [self |-> self, ret |-> Zero, exc |-> "none"]

\* a plausible bug (or fix): a first deposit stores the signal
Cell_add_signal_insert(self, signal) ==
    IF signal.id \in DOMAIN self.signals
    THEN LET r == Signal_increase(self.signals[signal.id], signal)
         IN  [self |-> [self EXCEPT !.signals[signal.id] = r.self],
              ret |-> "None", exc |-> r.exc]
    ELSE [self |-> [self EXCEPT !.signals = (signal.id :> signal) @@ @],
          ret |-> "None", exc |-> "none"]

\* Cell.add_signal(signal): an exception of increase propagates
Cell_add_signal(self, signal) ==
    IF signal.id \in DOMAIN self.signals
    THEN LET r == Signal_increase(self.signals[signal.id], signal)
         IN  [self |-> [self EXCEPT !.signals[signal.id] = r.self],
              ret |-> "None", exc |-> r.exc]
    ELSE [self |-> self, ret |-> "None", exc |-> "none"]

---------------------------------------------------------------------------
\* ants.py: World.  A Python list is a function on 0 .. n-1.

\* World.__init__(W, H): sets the attributes grid and ants, and no others
World_init(W, H) ==
    [grid |-> [x \in 0 .. W - 1 |->
                 [y \in 0 .. H - 1 |-> Cell_init(Position(x, y))]],
     ants |-> <<>>]

\* World.get_cell(pos): self.W and self.H are read before the modulo and
\* the list is then indexed with the Position the modulo returns, which a
\* list rejects with TypeError.
World_get_cell(self, pos) ==
    IF "W" \notin DOMAIN self \/ "H" \notin DOMAIN self
    THEN Raise("AttributeError")
    ELSE LET m == Position_mod(pos, Position(self.W, self.H))
         IN  IF m.exc # "none" THEN Raise(m.exc) ELSE Raise("TypeError")

\* World.get_signal(pos, id)
World_get_signal(self, pos, id) ==
    LET c == World_get_cell(self, pos)
    IN  IF c.exc # "none" THEN Raise(c.exc)
        ELSE LET r == Cell_get_signal(c.ret, id) IN Return(r.ret)

\* the offsets in the order of the two nested range(-dist, dist + 1) loops
Offsets(dist) ==
    LET n == IF dist < 0 THEN 0 ELSE 2 * dist + 1
    IN  [k \in 1 .. n * n |->
           Position(-dist + ((k - 1) \div n), -dist + ((k - 1) % n))]

\* the loop of signal_gradient from its k-th iteration on
RECURSIVE GradientLoop(_, _, _, _, _, _)
GradientLoop(self, pos, id, offs, k, grad) ==
    IF k > Len(offs) THEN Return(grad)
    ELSE LET offset == offs[k]
             signal == World_get_signal(self, Position_add(pos, offset), id)
         IN  IF signal.exc # "none" THEN Raise(signal.exc)
             ELSE GradientLoop(self, pos, id, offs, k + 1,
                      Position_add(grad, Position_mul(offset, signal.ret)))

\* World.signal_gradient(pos, dist, id)
World_signal_gradient(self, pos, dist, id) ==
    GradientLoop(self, pos, id, Offsets(dist), 1, Position(0, 0))

---------------------------------------------------------------------------
\* States of the scenarios that a specification does not exercise.
NoCall ==
    [op |-> "none", self |-> 0, arg |-> 0, dt |-> 0, pre |-> <<>>,
     preExt |-> <<>>, ret |-> "None", exc |-> "none"]

IdleSignals == sigs = <<>> /\ ext = <<>>
IdleCell ==
    /\ cell = Cell_init(Position(0, 0))
    /\ food0 = 0 /\ total = 0 /\ clean = TRUE /\ placed = {}
IdleWorld == world = <<>>

---------------------------------------------------------------------------
\* Signal scenario: two Signal objects built by the constructor with any
\* arguments, then any MaxOps calls of decrease and increase on them.
\* The first Signal is named "food": the two identities are interchangeable.
InitSignal ==
    /\ sigs \in [SigIdx -> {Signal_init(id, Int2Rat(i), Int2Rat(d)) :
                               id \in Ids, i \in Intensities, d \in Decays}]
    /\ sigs[1].id = "food"
    /\ ext = [s \in SigIdx |-> FALSE]
    /\ call = NoCall
    /\ nops = 0
    /\ IdleCell /\ IdleWorld

\* sigs[s].decrease(dt)
Decrease(s, dt) ==
    LET r == Signal_decrease(sigs[s], Int2Rat(dt))
    IN  /\ nops < MaxOps
        /\ sigs' = [sigs EXCEPT ![s] = r.self]
        /\ ext' = [ext EXCEPT ![s] = r.ret]
        /\ call' = [op |-> "decrease", self |-> s, arg |-> 0, dt |-> dt,
                    pre |-> sigs, preExt |-> ext, ret |-> r.ret, exc |-> r.exc]
        /\ nops' = nops + 1
        /\ UNCHANGED <<cell, food0, total, clean, placed, world>>

\* sigs[s].increase(sigs[t]); s = t is the call s.increase(s)
Increase(s, t) ==
    LET r == Signal_increase(sigs[s], sigs[t])
    IN  /\ nops < MaxOps
        /\ sigs' = [sigs EXCEPT ![s] = r.self]
        /\ ext' = [ext EXCEPT ![s] = IF r.exc = "none" THEN FALSE ELSE @]
        /\ call' = [op |-> "increase", self |-> s, arg |-> t, dt |-> 0,
                    pre |-> sigs, preExt |-> ext, ret |-> r.ret, exc |-> r.exc]
        /\ nops' = nops + 1
        /\ UNCHANGED <<cell, food0, total, clean, placed, world>>

NextSignal ==
    \/ \E s \in SigIdx, dt \in Dts : Decrease(s, dt)
    \/ \E s \in SigIdx, t \in SigIdx : Increase(s, t)

SpecSignal == InitSignal /\ [][NextSignal]_vars

---------------------------------------------------------------------------
\* Properties of the Signal scenario.  In a state reached by a call,
\* call.pre holds the Signal objects before the call and sigs after it.
Receiver == sigs[call.self]
PreReceiver == call.pre[call.self]
PreArgument == call.pre[call.arg]
IsDecrease == call.op = "decrease"
IsIncrease == call.op = "increase"
DecayTimesDt == RMul(PreReceiver.decay, Int2Rat(call.dt))

\* C2: one decrease(dt) on intensity i and decay d: when d*dt >= i the
\* intensity becomes exactly 0 and the call returns True; otherwise the
\* intensity becomes exactly i - d*dt and the call returns False.
C2_DecreaseStep ==
    IsDecrease =>
        /\ call.exc = "none"
        /\ Receiver.id = PreReceiver.id /\ Receiver.decay = PreReceiver.decay
        /\ IF RLe(PreReceiver.intensity, DecayTimesDt)
           THEN Receiver.intensity = Zero /\ call.ret = TRUE
           ELSE /\ RAdd(Receiver.intensity, DecayTimesDt) = PreReceiver.intensity
                /\ call.ret = FALSE

\* a decrease whose d*dt equals a positive intensity exactly
C2_Witness ==
    /\ IsDecrease
    /\ RLt(Zero, PreReceiver.intensity)
    /\ DecayTimesDt = PreReceiver.intensity
    /\ call.ret = TRUE

\* C3: increase on same-identity signals with intensities a, b > 0 leaves the
\* receiver with intensity a + b and decay (da*a + db*b)/(a + b), and the
\* merge in the other direction gives the same intensity and decay.
C3_MergeValues ==
    (/\ IsIncrease
     /\ PreReceiver.id = PreArgument.id
     /\ RLt(Zero, PreReceiver.intensity)
     /\ RLt(Zero, PreArgument.intensity)) =>
        LET a == PreReceiver.intensity
            b == PreArgument.intensity
            da == PreReceiver.decay
            db == PreArgument.decay
            other == Signal_increase(PreArgument, PreReceiver)
        IN  /\ call.exc = "none"
            /\ Receiver.intensity = RAdd(a, b)
            /\ RMul(Receiver.decay, RAdd(a, b)) = RAdd(RMul(da, a), RMul(db, b))
            /\ other.exc = "none"
            /\ other.self.intensity = Receiver.intensity
            /\ other.self.decay = Receiver.decay

\* a merge of two distinct signals with different intensities and decays
C3_Witness ==
    /\ IsIncrease
    /\ call.self # call.arg
    /\ PreReceiver.id = PreArgument.id
    /\ RLt(Zero, PreReceiver.intensity)
    /\ RLt(PreReceiver.intensity, PreArgument.intensity)
    /\ PreReceiver.decay # PreArgument.decay
    /\ call.exc = "none"

\* C7: increase with a signal of another identity raises the identity
\* mismatch exception and changes neither the receiver nor the argument.
C7_IdentityMismatch ==
    (IsIncrease /\ PreReceiver.id # PreArgument.id) =>
        /\ call.exc = "Exception"
        /\ sigs[call.self] = call.pre[call.self]
        /\ sigs[call.arg] = call.pre[call.arg]

\* a mismatched merge whose intensities would not have divided by zero
C7_Witness ==
    /\ IsIncrease
    /\ PreReceiver.id # PreArgument.id
    /\ RLt(Zero, PreReceiver.intensity)
    /\ RLt(Zero, PreArgument.intensity)
    /\ call.exc = "Exception"

\* C8: the intensity of every Signal is non-negative in every reachable
\* state, from construction on.
C8_IntensityNonNegative ==
    \A s \in DOMAIN sigs : RLe(Zero, sigs[s].intensity)

\* C9 (its safety part): a decrease never raises the intensity, and a
\* decrease on a signal that a previous decrease extinguished, with no merge
\* in between, leaves the intensity at 0 and returns True again.
C9_DecayMonotone ==
    IsDecrease =>
        /\ RLe(Receiver.intensity, PreReceiver.intensity)
        /\ call.preExt[call.self] =>
               (Receiver.intensity = Zero /\ call.ret = TRUE)

\* C10: increase on same-identity signals whose intensities sum to 0 raises
\* ZeroDivisionError and leaves the receiver's decay and intensity unchanged.
C10_ZeroTotal ==
    (/\ IsIncrease
     /\ PreReceiver.id = PreArgument.id
     /\ RAdd(PreReceiver.intensity, PreArgument.intensity) = Zero) =>
        /\ call.exc = "ZeroDivisionError"
        /\ Receiver.decay = PreReceiver.decay
        /\ Receiver.intensity = PreReceiver.intensity

\* a zero-intensity signal merged into a signal that a decrease extinguished
C10_Witness ==
    /\ IsIncrease
    /\ call.self # call.arg
    /\ call.preExt[call.self]
    /\ PreReceiver.intensity = Zero
    /\ PreArgument.intensity = Zero
    /\ call.exc = "ZeroDivisionError"

---------------------------------------------------------------------------
\* Food scenario: one Cell; the driver stocks it by assigning the public
\* attribute food (no method adds food), then grab_food is called.
Foods == 0 .. MaxFood
Amounts == -1 .. MaxAmount

InitFood ==
    /\ cell = Cell_init(Position(0, 0))
    /\ food0 = 0 /\ total = 0 /\ clean = TRUE /\ placed = {}
    /\ call = NoCall
    /\ nops = 0
    /\ IdleSignals /\ IdleWorld

\* cell.food = f
StockFood(f) ==
    /\ nops < MaxGrabs
    /\ cell' = [cell EXCEPT !.food = f]
    /\ food0' = f /\ total' = 0 /\ clean' = TRUE
    /\ call' = [op |-> "stock", self |-> 0, arg |-> f, dt |-> 0,
                pre |-> cell, preExt |-> <<>>, ret |-> "None", exc |-> "none"]
    /\ nops' = nops + 1
    /\ UNCHANGED <<sigs, ext, placed, world>>

\* cell.grab_food(amount)
GrabFood(amount) ==
    LET r == Cell_grab_food(cell, amount)
    IN  /\ nops < MaxGrabs
        /\ cell' = r.self
        /\ total' = total + r.ret
        /\ clean' = (clean /\ amount >= 0)
        /\ call' = [op |-> "grab_food", self |-> 0, arg |-> amount, dt |-> 0,
                    pre |-> cell, preExt |-> <<>>, ret |-> r.ret, exc |-> r.exc]
        /\ nops' = nops + 1
        /\ UNCHANGED <<sigs, ext, food0, placed, world>>

NextFood ==
    \/ \E f \in Foods : StockFood(f)
    \/ \E amount \in Amounts : GrabFood(amount)

SpecFood == InitFood /\ [][NextFood]_vars

Min(a, b) == IF a <= b THEN a ELSE b

\* C1: with food f >= 0 and amount >= 0, grab_food returns min(amount, f) and
\* leaves f minus the returned value; after any grab_food calls with
\* non-negative amounts the food is never negative and the total returned
\* never exceeds the food stocked.
C1_GrabFood ==
    /\ (call.op = "grab_food" /\ call.pre.food >= 0 /\ call.arg >= 0) =>
          /\ call.exc = "none"
          /\ call.ret = Min(call.arg, call.pre.food)
          /\ cell.food = call.pre.food - call.ret
          /\ cell.food >= 0
    /\ clean => (cell.food >= 0 /\ total <= food0)

\* a second grab that asks for more than is left and empties the cell
C1_Witness ==
    /\ call.op = "grab_food"
    /\ clean
    /\ call.pre.food > 0
    /\ call.pre.food < food0
    /\ call.arg > call.pre.food
    /\ call.ret = call.pre.food
    /\ total = food0
    /\ cell.food = 0

---------------------------------------------------------------------------
\* Cell-signal scenario: one Cell; the driver stores Signals by assigning
\* into the public dict signals (no method inserts), and add_signal and
\* get_signal are called with any arguments.
ArgSignals ==
    {Signal_init(id, Int2Rat(i), Int2Rat(d)) :
        id \in Ids, i \in Intensities, d \in Decays}

InitCell ==
    /\ cell = Cell_init(Position(0, 0))
    /\ food0 = 0 /\ total = 0 /\ clean = TRUE /\ placed = {}
    /\ call = NoCall
    /\ nops = 0
    /\ IdleSignals /\ IdleWorld

\* cell.signals[signal.id] = signal
PutSignal(signal) ==
    /\ nops < MaxCellOps
    /\ cell' = [cell EXCEPT !.signals = (signal.id :> signal) @@ @]
    /\ placed' = placed \cup {signal.id}
    /\ call' = [op |-> "put", self |-> 0, arg |-> signal, dt |-> 0,
                pre |-> cell, preExt |-> <<>>, ret |-> "None", exc |-> "none"]
    /\ nops' = nops + 1
    /\ UNCHANGED <<sigs, ext, food0, total, clean, world>>

\* cell.add_signal(signal)
AddSignal(signal) ==
    LET r == Cell_add_signal(cell, signal)
    IN  /\ nops < MaxCellOps
        /\ cell' = r.self
        /\ call' = [op |-> "add_signal", self |-> 0, arg |-> signal, dt |-> 0,
                    pre |-> cell, preExt |-> <<>>, ret |-> r.ret, exc |-> r.exc]
        /\ nops' = nops + 1
        /\ UNCHANGED <<sigs, ext, food0, total, clean, placed, world>>

\* cell.get_signal(key)
GetSignal(key) ==
    LET r == Cell_get_signal(cell, key)
    IN  /\ nops < MaxCellOps
        /\ cell' = r.self
        /\ call' = [op |-> "get_signal", self |-> 0, arg |-> key, dt |-> 0,
                    pre |-> cell, preExt |-> <<>>, ret |-> r.ret, exc |-> r.exc]
        /\ nops' = nops + 1
        /\ UNCHANGED <<sigs, ext, food0, total, clean, placed, world>>

NextCell ==
    \/ \E signal \in ArgSignals : PutSignal(signal)
    \/ \E signal \in ArgSignals : AddSignal(signal)
    \/ \E key \in Ids : GetSignal(key)

SpecCell == InitCell /\ [][NextCell]_vars

\* C6: add_signal merges into a signal of the same identity that the cell
\* holds and does nothing otherwise: an identity the cell was never given
\* has no entry whatever add_signal calls were made, and get_signal returns
\* exactly 0 for it.
C6_NoFirstDeposit ==
    /\ DOMAIN cell.signals = placed
    /\ (call.op = "add_signal" /\ call.arg.id \notin DOMAIN call.pre.signals) =>
          (cell = call.pre /\ call.exc = "none")
    /\ (call.op = "add_signal" /\ call.arg.id \in DOMAIN call.pre.signals
            /\ call.exc = "none") =>
          /\ cell.signals[call.arg.id].intensity =
                 RAdd(call.pre.signals[call.arg.id].intensity, call.arg.intensity)
          /\ \A k \in DOMAIN cell.signals \ {call.arg.id} :
                 cell.signals[k] = call.pre.signals[k]
    /\ (call.op = "get_signal" /\ call.arg \notin placed) => call.ret = Zero

\* a positive signal offered to a cell that holds only the other identity
C6_Witness ==
    /\ call.op = "add_signal"
    /\ placed # {}
    /\ call.arg.id \notin placed
    /\ RLt(Zero, call.arg.intensity)
    /\ cell.signals = call.pre.signals

---------------------------------------------------------------------------
\* World scenario: a World built with any width and height in 1 .. MaxSide;
\* the driver stores Signals into cells of the grid, and get_cell,
\* get_signal and signal_gradient are called with any arguments.
Sides == 1 .. MaxSide
Coords == -1 .. MaxSide + 1
Dists == -1 .. MaxDist
WorldSignals ==
    {Signal_init(id, Int2Rat(i), Int2Rat(1)) : id \in Ids, i \in 1 .. MaxIntensity}

InitWorld ==
    /\ \E W \in Sides, H \in Sides : world = World_init(W, H)
    /\ call = NoCall
    /\ nops = 0
    /\ IdleSignals /\ IdleCell

\* world.grid[x][y].signals[signal.id] = signal
PlaceSignal(x, y, signal) ==
    /\ nops < MaxWorldOps
    /\ x \in DOMAIN world.grid /\ y \in DOMAIN world.grid[x]
    /\ world' = [world EXCEPT
                   !.grid[x][y].signals = (signal.id :> signal) @@ @]
    /\ call' = [op |-> "place", self |-> 0, arg |-> <<x, y, signal>>, dt |-> 0,
                pre |-> world, preExt |-> <<>>, ret |-> "None", exc |-> "none"]
    /\ nops' = nops + 1
    /\ UNCHANGED <<sigs, ext, cell, food0, total, clean, placed>>

\* world.get_cell(pos)
GetCell(pos) ==
    LET r == World_get_cell(world, pos)
    IN  /\ nops < MaxWorldOps
        /\ call' = [op |-> "get_cell", self |-> 0, arg |-> <<pos>>, dt |-> 0,
                    pre |-> world, preExt |-> <<>>, ret |-> r.ret, exc |-> r.exc]
        /\ nops' = nops + 1
        /\ UNCHANGED <<sigs, ext, cell, food0, total, clean, placed, world>>

\* world.get_signal(pos, id)
WorldGetSignal(pos, id) ==
    LET r == World_get_signal(world, pos, id)
    IN  /\ nops < MaxWorldOps
        /\ call' = [op |-> "world_get_signal", self |-> 0, arg |-> <<pos, id>>,
                    dt |-> 0, pre |-> world, preExt |-> <<>>,
                    ret |-> r.ret, exc |-> r.exc]
        /\ nops' = nops + 1
        /\ UNCHANGED <<sigs, ext, cell, food0, total, clean, placed, world>>

\* world.signal_gradient(pos, dist, id)
SignalGradient(pos, dist, id) ==
    LET r == World_signal_gradient(world, pos, dist, id)
    IN  /\ nops < MaxWorldOps
        /\ call' = [op |-> "signal_gradient", self |-> 0,
                    arg |-> <<pos, dist, id>>, dt |-> 0, pre |-> world,
                    preExt |-> <<>>, ret |-> r.ret, exc |-> r.exc]
        /\ nops' = nops + 1
        /\ UNCHANGED <<sigs, ext, cell, food0, total, clean, placed, world>>

NextWorld ==
    \/ \E x \in 0 .. MaxSide - 1, y \in 0 .. MaxSide - 1, signal \in WorldSignals :
          PlaceSignal(x, y, signal)
    \/ \E x \in Coords, y \in Coords : GetCell(Position(x, y))
    \/ \E x \in Coords, y \in Coords, id \in Ids :
          WorldGetSignal(Position(x, y), id)
    \/ \E x \in Coords, y \in Coords, dist \in Dists, id \in Ids :
          SignalGradient(Position(x, y), dist, id)

SpecWorld == InitWorld /\ [][NextWorld]_vars

\* width and height the World was constructed with
Width == Cardinality(DOMAIN world.grid)
Height == Cardinality(DOMAIN world.grid[0])

\* the Cell stored for the wrapped position
WrappedCell(x, y) == world.grid[x % Width][y % Height]

\* C4: get_cell(Position(x, y)) returns the Cell created at
\* (x mod W, y mod H), and get_cell(Position(x + W, y + H)) returns the same.
C4_GetCellWraps ==
    call.op = "get_cell" =>
        LET pos == call.arg[1]
            shifted == World_get_cell(world, Position(pos.x + Width, pos.y + Height))
        IN  /\ call.exc = "none"
            /\ call.ret = WrappedCell(pos.x, pos.y)
            /\ call.ret.pos = Position(pos.x % Width, pos.y % Height)
            /\ shifted.exc = "none"
            /\ shifted.ret = call.ret

\* intensity of the named signal in the Cell stored for the wrapped position
IntensityAt(x, y, id) ==
    LET c == WrappedCell(x, y)
    IN  IF id \in DOMAIN c.signals THEN c.signals[id].intensity ELSE Zero

\* sum over the offsets o of S of o[c] times the intensity at pos + o
RECURSIVE WeightedSum(_, _, _, _)
WeightedSum(S, c, pos, id) ==
    IF S = {} THEN Zero
    ELSE LET o == CHOOSE o \in S : TRUE
         IN  RAdd(RMul(Int2Rat(o[c]), IntensityAt(pos.x + o[1], pos.y + o[2], id)),
                  WeightedSum(S \ {o}, c, pos, id))

Square(radius) == (-radius .. radius) \X (-radius .. radius)

\* C5: signal_gradient(pos, radius, id) returns the sum over the offsets of
\* the square of offset times the intensity at the wrapped pos + offset, and
\* changes no cell or signal.
C5_GradientSum ==
    call.op = "signal_gradient" =>
        LET pos == call.arg[1]
            radius == call.arg[2]
            id == call.arg[3]
        IN  /\ call.exc = "none"
            /\ Int2Rat(call.ret.x) = WeightedSum(Square(radius), 1, pos, id)
            /\ Int2Rat(call.ret.y) = WeightedSum(Square(radius), 2, pos, id)
            /\ world = call.pre

=============================================================================
